---- MODULE Spec2Model ----
(***************************************************************************)
(* The [[15,7,3]] Hamming CSS error-correction notebook (css-code.ipynb): *)
(* the encoder of the logical all-zero state, the two Pauli error          *)
(* channels, syndrome extraction, the correction loops, the output         *)
(* measurement and the success tally of the test cells.                    *)
(*                                                                         *)
(* Every gate of the circuits is a Clifford gate, so the data register is  *)
(* represented exactly (up to global phase) by                             *)
(*   support : the set of computational-basis strings of the encoded       *)
(*             state, all with equal amplitude, and                        *)
(*   eX, eZ  : the Pauli frame, the net X and Z operators applied to the   *)
(*             register since the encoding (errors and corrections).       *)
(* A bit string is a function from qubit index to {0,1}.                   *)
(***************************************************************************)
EXTENDS Integers, Sequences, FiniteSets, TLC

\* ------------------------------------------------------------- constants

\* QuantumRegister(size = 15): the encoding qubits
NumQubits == 15
\* AncillaRegister(size = 4): one syndrome ancilla per row of H_matrix
NumRows == 4

\* error probabilities are the rationals pn / PDen, and a uniform draw of
\* np.random.rand() is one of the cells [r/PDen, (r+1)/PDen), r in 0..PDen-1
PDen == 9
\* at most MaxErrors encoding qubits receive error gates in one run
MaxErrors == 1
\* shots (rounds) tallied by a test cell
MaxShots == 2

\* error patterns given to the scoring of one shot: X errors on at most
\* MaxErrors + 1 qubits, Z errors anywhere on the first MaxZQubits qubits
MaxZQubits == 2

Qubits == 0 .. (NumQubits - 1)
Rows == 0 .. (NumRows - 1)

H_matrix ==
  << <<1,0,1,0,1,0,1,0,1,0,1,0,1,0,1>>,
     <<0,1,1,0,0,1,1,0,0,1,1,0,0,1,1>>,
     <<0,0,0,1,1,1,1,0,0,0,0,1,1,1,1>>,
     <<0,0,0,0,0,0,0,1,1,1,1,1,1,1,1>> >>

\* swaps the generators (rows) a and b of M, counted from 1
SwapRows(M, a, b) ==
  [r \in DOMAIN M |-> IF r = a THEN M[b] ELSE IF r = b THEN M[a] ELSE M[r]]

\* swaps the qubits (columns) a and b of M, counted from 1
SwapColumns(M, a, b) ==
  [r \in DOMAIN M |->
     [j \in DOMAIN M[r] |->
        IF j = a THEN M[r][b] ELSE IF j = b THEN M[r][a] ELSE M[r][j]]]

\* variant: the row swap alone, the column swap left out
H_std_NoColumnSwap == SwapRows(H_matrix, 3, 4)

\* H_matrix in standard form
H_std ==
  << <<1,0,0,0,1,0,1,1,1,0,1,0,1,0,1>>,
     <<0,1,0,0,0,1,1,1,0,1,1,0,0,1,1>>,
     <<0,0,1,0,0,0,0,0,1,1,1,1,1,1,1>>,
     <<0,0,0,1,1,1,1,0,0,0,0,1,1,1,1>> >>

\* the strings of the list, one character per element
logical_zero_components ==
  <<
    <<"1","1","0","0","0","0","1","1","0","0","1","1","1","1","0">>,
    <<"0","1","1","0","1","0","0","1","1","0","0","1","0","1","1">>,
    <<"0","0","0","0","0","0","0","0","0","0","0","0","0","0","0">>,
    <<"1","0","1","0","0","1","0","1","0","1","0","1","1","0","1">>,
    <<"1","0","1","0","1","0","1","0","1","0","1","0","1","0","1">>,
    <<"0","1","0","1","0","1","0","1","1","0","1","0","1","0","1">>,
    <<"0","0","1","1","0","0","1","1","1","1","0","0","1","1","0">>,
    <<"1","0","0","1","1","0","0","1","0","1","1","0","0","1","1">>,
    <<"1","1","1","1","1","1","1","1","0","0","0","0","0","0","0">>,
    <<"1","1","1","1","0","0","0","0","1","1","1","1","0","0","0">>,
    <<"1","0","0","1","0","1","1","0","1","0","0","1","0","1","1">>,
    <<"1","1","0","0","1","1","0","0","1","1","0","0","1","1","0">>,
    <<"0","0","0","0","1","1","1","1","1","1","1","1","0","0","0">>,
    <<"0","1","0","1","1","0","1","0","0","1","0","1","1","0","1">>,
    <<"0","0","1","1","1","1","0","0","0","0","1","1","1","1","0">>,
    <<"0","1","1","0","0","1","1","0","0","1","1","0","0","1","1">>
  >>

\* ------------------------------------------------------------ bit strings

Zero(n) == [i \in 0 .. (n - 1) |-> 0]

Flip(e, i) == [e EXCEPT ![i] = 1 - e[i]]

Xor(a, b) == [i \in DOMAIN a |-> (a[i] + b[i]) % 2]

Range(s) == {s[k] : k \in DOMAIN s}

\* variant: clbit 0 taken as the most significant bit
RECURSIVE RegisterValue_MsbFirst(_, _)
RegisterValue_MsbFirst(bits, k) ==
  IF k = 0 THEN 0
  ELSE bits[k - 1] + 2 * RegisterValue_MsbFirst(bits, k - 1)

\* the value of a ClassicalRegister of k bits, clbit 0 least significant,
\* as if_test((register, value)) compares it
RECURSIVE RegisterValue(_, _)
RegisterValue(bits, k) ==
  IF k = 0 THEN 0 ELSE bits[k - 1] * 2^(k - 1) + RegisterValue(bits, k - 1)

\* a register of k bits as it is printed in a get_counts() key: the
\* highest bit first, so character s (from 1) is bit k - s
RegisterString(bits, k) ==
  [s \in 1 .. k |-> IF bits[k - s] = 1 THEN "1" ELSE "0"]

\* variant: the characters of a key read as qubits 0, 1, ... from the left
KeyBits_NoReverse(str, k) ==
  [i \in 0 .. (k - 1) |-> IF str[i + 1] = "1" THEN 1 ELSE 0]

\* the bit string a key fragment of k characters stands for
KeyBits(str, k) == [i \in 0 .. (k - 1) |-> IF str[k - i] = "1" THEN 1 ELSE 0]

\* ---------------------------------------------------------------- encoder

\* h on a qubit that is |0> in every string of the support: both values
Hadamard(S, i) == S \cup {Flip(c, i) : c \in S}

Cx(S, i, j) == {[c EXCEPT ![j] = (c[j] + c[i]) % 2] : c \in S}

SwapGate(S, a, b) == {[c EXCEPT ![a] = c[b], ![b] = c[a]] : c \in S}

\* for j in range(4,15): if (H_std[i])[j] == 1: cx(i, j)
RECURSIVE EncodeColumns(_, _, _)
EncodeColumns(S, i, j) ==
  IF j = NumQubits THEN S
  ELSE EncodeColumns(IF H_std[i + 1][j + 1] = 1 THEN Cx(S, i, j) ELSE S, i, j + 1)

\* for i in range(4): h(i); the cx loop
RECURSIVE EncodeRows(_, _)
EncodeRows(S, i) ==
  IF i = NumRows THEN S
  ELSE EncodeRows(EncodeColumns(Hadamard(S, i), i, NumRows), i + 1)

\* variant: the encoding block without its final swap
Encoder_NoSwap(S) == EncodeRows(S, 0)

\* the encoding block with its final swap(2, 7)
Encoder(S) == SwapGate(EncodeRows(S, 0), 2, 7)

\* --------------------------------------------------------------- syndromes

\* for index, element in enumerate(entry): if element: cx(data[index], ancilla)
\* the ancilla, started in 0, ends as the parity of the row's qubits that are 1
SyndromeBit(entry, e) ==
  Cardinality({index \in Qubits : entry[index + 1] = 1 /\ e[index] = 1}) % 2

\* variant: the rows of H_matrix written to the ancillas in reverse order
SyndromeBits_RowOrder(e) ==
  [r \in Rows |-> SyndromeBit(H_matrix[NumRows - r], e)]

\* for syndrome_index, entry in enumerate(H_matrix): ancilla syndrome_index
SyndromeBits(e) == [r \in Rows |-> SyndromeBit(H_matrix[r + 1], e)]

\* the rows of H_matrix as bit strings over the qubits
RowStrings == [r \in Rows |-> [i \in Qubits |-> H_matrix[r + 1][i + 1]]]

\* the X-type generator of row r applied to every string of a support
Translate(S, r) == {Xor(c, RowStrings[r]) : c \in S}

\* -------------------------------------------------------------- correction

\* variant: the branches test the syndrome against i, not i + 1
RECURSIVE FiredBranches_ZeroBased(_, _)
FiredBranches_ZeroBased(syn, i) ==
  IF i = NumQubits THEN << >>
  ELSE (IF syn = i THEN <<i>> ELSE << >>)
         \o FiredBranches_ZeroBased(syn, i + 1)

\* variant: the loop stops one qubit short, range(14)
RECURSIVE FiredBranches_ShortLoop(_, _)
FiredBranches_ShortLoop(syn, i) ==
  IF i >= NumQubits - 1 THEN << >>
  ELSE (IF syn = i + 1 THEN <<i>> ELSE << >>)
         \o FiredBranches_ShortLoop(syn, i + 1)

\* for i in range(15): with if_test((syndromes, i+1)): gate(i)
\* the qubits whose branch fires, in loop order
RECURSIVE FiredBranches(_, _)
FiredBranches(syn, i) ==
  IF i = NumQubits THEN << >>
  ELSE (IF syn = i + 1 THEN <<i>> ELSE << >>) \o FiredBranches(syn, i + 1)

RECURSIVE ApplyFlips(_, _)
ApplyFlips(e, qs) ==
  IF qs = << >> THEN e ELSE ApplyFlips(Flip(e, Head(qs)), Tail(qs))

\* ------------------------------------------------------------ Pauli errors

\* variant: the two outcomes of ancilla 1 exchanged
Ancilla1Weight_Swapped(pn, flip) ==
  IF flip = 0 THEN PDen - 2 * pn ELSE 2 * pn

\* pauli_error(p), p = pn / PDen: the weight of each ancilla flip.
\* ry(theta_0) on ancilla 1, cos^2(theta_0 / 2) = 2p: kept with 2p, flipped
\* with 1 - 2p (numerators over PDen)
Ancilla1Weight(pn, flip) == IF flip = 0 THEN 2 * pn ELSE PDen - 2 * pn

\* the two cry on ancilla 0 (numerators over 2 * (PDen - 2 * pn)): with
\* ancilla 1 measured 0, theta_10 and cos^2 = 1/2; with ancilla 1 measured 1,
\* theta_11 and cos^2 = p / (1 - 2p)
Ancilla0Weight(pn, b1, flip) ==
  IF b1 = 0 THEN PDen - 2 * pn
  ELSE IF flip = 0 THEN 2 * pn ELSE 2 * (PDen - 3 * pn)

\* weight of measuring ancillas b from ancillas a, over
\* 2 * PDen * (PDen - 2 * pn)
OutcomeWeight(pn, a, b) ==
  Ancilla1Weight(pn, (a[1] + b[1]) % 2)
    * Ancilla0Weight(pn, b[1], (a[0] + b[0]) % 2)

\* variant: the blocks without their x gates on the ancillas
PauliErrorBranches_NoReset(v, x, z, a) ==
  IF v = 0 THEN [x |-> 1 - x, z |-> z, a |-> a, fired |-> <<0>>]
  ELSE IF v = 1 THEN [x |-> 1 - x, z |-> 1 - z, a |-> a, fired |-> <<1>>]
  ELSE IF v = 2 THEN [x |-> x, z |-> 1 - z, a |-> a, fired |-> <<2>>]
  ELSE [x |-> x, z |-> z, a |-> a, fired |-> <<3>>]

\* variant: the register compared with its bits in the other order, so
\* that the blocks of the values 1 and 2 are exchanged
PauliErrorBranches_BitOrder(v, x, z, a) ==
  IF v = 0 THEN [x |-> 1 - x, z |-> z, a |-> a, fired |-> <<0>>]
  ELSE IF v = 2
       THEN [x |-> 1 - x, z |-> 1 - z, a |-> Flip(a, 0), fired |-> <<1>>]
  ELSE IF v = 1
       THEN [x |-> x, z |-> 1 - z, a |-> Flip(a, 1), fired |-> <<2>>]
  ELSE [x |-> x, z |-> z, a |-> Flip(Flip(a, 0), 1), fired |-> <<3>>]

\* the four if_test blocks of pauli_error, in order, on the frame bits x, z
\* of the data qubit and the ancillas a, for the measured register value v;
\* fired lists the blocks whose test passed
PauliErrorBranches(v, x, z, a) ==
  LET s0 == [x |-> x, z |-> z, a |-> a, fired |-> << >>]
      s1 == IF v = 0
            THEN [s0 EXCEPT !.x = 1 - @, !.fired = Append(@, 0)]
            ELSE s0
      s2 == IF v = 1
            THEN [s1 EXCEPT !.x = 1 - @, !.z = 1 - @, !.a = Flip(@, 0),
                            !.fired = Append(@, 1)]
            ELSE s1
      s3 == IF v = 2
            THEN [s2 EXCEPT !.z = 1 - @, !.a = Flip(@, 1),
                            !.fired = Append(@, 2)]
            ELSE s2
      s4 == IF v = 3
            THEN [s3 EXCEPT !.a = Flip(Flip(@, 0), 1), !.fired = Append(@, 3)]
            ELSE s3
  IN s4

\* pauli_error_numpy(p) for a draw r / PDen <= randnum < (r + 1) / PDen, so
\* that randnum < k * p exactly when r < k * pn: the gates of the returned
\* one-qubit circuit (three separate if)
pauli_error_numpy(pn, r) ==
  (IF r < pn THEN <<"x">> ELSE << >>)
    \o (IF r < 2 * pn THEN <<"y">> ELSE << >>)
    \o (IF r < 3 * pn THEN <<"z">> ELSE << >>)

\* a sequence of Pauli gates on the frame bits of one qubit
RECURSIVE ApplyGates(_, _, _)
ApplyGates(gs, x, z) ==
  IF gs = << >> THEN [x |-> x, z |-> z]
  ELSE LET g == Head(gs)
       IN ApplyGates(Tail(gs),
                     IF g \in {"x", "y"} THEN 1 - x ELSE x,
                     IF g \in {"y", "z"} THEN 1 - z ELSE z)

\* ------------------------------------------------------------------ state

VARIABLES
  sampler,   \* "ancilla": CSS_correction / pauli_error; "numpy": the numpy variants
  pn,        \* the error probability p = pn / PDen
  pc,        \* the stage of the circuit (or of its construction) that runs next
  qi,        \* the encoding qubit the per-qubit loop is at
  gates,     \* numpy variant: the error gates composed on each data qubit
  support,   \* data qubits: the basis strings of the state without its frame
  eX,        \* data qubits: net X operators applied (errors, corrections)
  eZ,        \* data qubits: net Z operators applied
  anc,       \* the two pauli-err ancillas
  pcl,       \* classical register pauli-cl
  pFired,    \* the if_test blocks of the last pauli_error block that fired
  xs,        \* classical register "x syndromes"
  zs,        \* classical register "z syndromes"
  xCorr,     \* qubits on which an X-correction branch fired in this shot
  zCorr,     \* qubits on which a Z-correction branch fired in this shot
  out,       \* classical register "measurements"
  shots,     \* shots run and tallied so far
  success,   \* the accumulator success of the test cell
  earlier    \* outcomes of the earlier shots of the compiled circuit (SpecReplay)

vars ==
  <<sampler, pn, pc, qi, gates, support, eX, eZ, anc, pcl, pFired, xs, zs,
    xCorr, zCorr, out, shots, success, earlier>>

\* numerators of the probabilities a trial runs with: p = 0 and a p in (0, 1/3)
TrialPn == {0, 1}

\* numerators of every probability of the grid in [0, 1/3]
GridPn == 0 .. (PDen \div 3)

NoGates(n) == [i \in 0 .. (n - 1) |-> << >>]

\* every qubit and clbit of a circuit of n data qubits and k syndrome
\* ancillas per type starts a shot in 0
FreshShot(n, k) ==
  /\ support' = {Zero(n)}
  /\ eX' = Zero(n)
  /\ eZ' = Zero(n)
  /\ anc' = Zero(2)
  /\ pcl' = Zero(2)
  /\ pFired' = << >>
  /\ xs' = Zero(k)
  /\ zs' = Zero(k)
  /\ xCorr' = << >>
  /\ zCorr' = << >>
  /\ out' = Zero(n)

\* a circuit of n data qubits and k syndrome ancillas per type before its
\* first shot
Fresh(n, k) ==
  /\ qi = 0
  /\ gates = NoGates(n)
  /\ support = {Zero(n)}
  /\ eX = Zero(n)
  /\ eZ = Zero(n)
  /\ anc = Zero(2)
  /\ pcl = Zero(2)
  /\ pFired = << >>
  /\ xs = Zero(k)
  /\ zs = Zero(k)
  /\ xCorr = << >>
  /\ zCorr = << >>
  /\ out = Zero(n)
  /\ shots = 0
  /\ success = 0
  /\ earlier = {}

Init ==
  /\ sampler \in {"ancilla", "numpy"}
  /\ pn \in TrialPn
  /\ pc = IF sampler = "numpy" THEN "build" ELSE "encode"
  /\ Fresh(NumQubits, NumRows)

\* the qubits that carry an error so far
Erred == {i \in DOMAIN eX : eX[i] = 1 \/ eZ[i] = 1}

\* the stage after the per-qubit loop has handled qubit qi
AfterQubit(next) ==
  IF qi = NumQubits - 1
  THEN pc' = next /\ qi' = 0
  ELSE pc' = pc /\ qi' = qi + 1

\* compose(pauli_error_numpy(p), qubits = [q]): the draw and its gates
ComposeNumpy(q) ==
  \E r \in 0 .. (PDen - 1) :
    LET g == pauli_error_numpy(pn, r)
    IN /\ g = << >> \/ Cardinality({i \in DOMAIN gates : gates[i] # << >>}) < MaxErrors
       /\ gates' = [gates EXCEPT ![q] = g]

\* one run of a pauli_error(p) block on data qubit q: the ancilla
\* preparation, the measurement into pauli-cl, the four if_test blocks
PauliErrorBlock(q) ==
  \E b \in [0 .. 1 -> {0, 1}] :
    /\ OutcomeWeight(pn, anc, b) > 0
    /\ LET res == PauliErrorBranches(RegisterValue(b, 2), eX[q], eZ[q], b)
       IN /\ (res.x = eX[q] /\ res.z = eZ[q]) \/ Cardinality(Erred) < MaxErrors
          /\ eX' = [eX EXCEPT ![q] = res.x]
          /\ eZ' = [eZ EXCEPT ![q] = res.z]
          /\ anc' = res.a
          /\ pFired' = res.fired
    /\ pcl' = b

\* variant: the draw made when the shot runs, not when the circuit is built
NumpyBlock_Redraw(q) ==
  \E r \in 0 .. (PDen - 1) :
    LET res == ApplyGates(pauli_error_numpy(pn, r), eX[q], eZ[q])
    IN /\ (res.x = eX[q] /\ res.z = eZ[q]) \/ Cardinality(Erred) < MaxErrors
       /\ eX' = [eX EXCEPT ![q] = res.x]
       /\ eZ' = [eZ EXCEPT ![q] = res.z]

\* one run of the gates composed from pauli_error_numpy on data qubit q
NumpyBlock(q) ==
  LET res == ApplyGates(gates[q], eX[q], eZ[q])
  IN /\ eX' = [eX EXCEPT ![q] = res.x]
     /\ eZ' = [eZ EXCEPT ![q] = res.z]

\* CSS_correction_numpy: one pass of the loop composing pauli_error_numpy(p)
ComposeNumpyError ==
  /\ pc = "build"
  /\ ComposeNumpy(qi)
  /\ AfterQubit("encode")
  /\ UNCHANGED <<sampler, pn, support, eX, eZ, anc, pcl, pFired, xs, zs,
                 xCorr, zCorr, out, shots, success, earlier>>

\* the encoding block: the logical all-zero state
Encode ==
  /\ pc = "encode"
  /\ support' = Encoder(support)
  /\ pc' = "error"
  /\ qi' = 0
  /\ UNCHANGED <<sampler, pn, gates, eX, eZ, anc, pcl, pFired, xs, zs,
                 xCorr, zCorr, out, shots, success, earlier>>

\* CSS_correction: the pauli_error(p) block composed on encoding qubit qi
\* with the shared ancillas and the shared classical register
pauli_error ==
  /\ pc = "error"
  /\ sampler = "ancilla"
  /\ PauliErrorBlock(qi)
  /\ AfterQubit("xsyn")
  /\ UNCHANGED <<sampler, pn, gates, support, xs, zs, xCorr, zCorr, out,
                 shots, success, earlier>>

\* CSS_correction_numpy: the gates composed on encoding qubit qi
NumpyError ==
  /\ pc = "error"
  /\ sampler = "numpy"
  /\ NumpyBlock(qi)
  /\ AfterQubit("xsyn")
  /\ UNCHANGED <<sampler, pn, gates, support, anc, pcl, pFired, xs, zs,
                 xCorr, zCorr, out, shots, success, earlier>>

\* produces and measures the X-syndromes: each ancilla takes the parity of
\* its row over the data; the measurement keeps the strings that agree
MeasureXSyndromes ==
  /\ pc = "xsyn"
  /\ \E s \in {SyndromeBits(Xor(c, eX)) : c \in support} :
       /\ xs' = s
       /\ support' = {d \in support : SyndromeBits(Xor(d, eX)) = s}
  /\ pc' = "zsyn"
  /\ UNCHANGED <<sampler, pn, qi, gates, eX, eZ, anc, pcl, pFired, zs, xCorr,
                 zCorr, out, shots, success, earlier>>

\* the Z-syndrome ancillas in row order: h, cx from the ancilla onto its
\* row, h measure the row's X-type generator. When the generator maps the
\* state to itself its sign is fixed by the Z frame; otherwise the outcome
\* is a fair coin and the state takes up the translated strings
RECURSIVE ZMeasure(_, _, _)
ZMeasure(S, r, free) ==
  IF r = NumRows THEN [support |-> S, free |-> free]
  ELSE IF Translate(S, r) = S
       THEN ZMeasure(S, r + 1, free)
       ELSE ZMeasure(S \cup Translate(S, r), r + 1, free \cup {r})

\* produces and measures the Z-syndromes
MeasureZSyndromes ==
  /\ pc = "zsyn"
  /\ \E m \in {ZMeasure(support, 0, {})} :
     \E sign \in {SyndromeBits(eZ)} :
     \E b \in [Rows -> {0, 1}] :
       /\ \A r \in Rows \ m.free : b[r] = sign[r]
       /\ zs' = b
       /\ support' = m.support
  /\ pc' = "xcorr"
  /\ UNCHANGED <<sampler, pn, qi, gates, eX, eZ, anc, pcl, pFired, xs, xCorr,
                 zCorr, out, shots, success, earlier>>

\* corrects X-errors by examination of X-syndromes
CorrectX ==
  /\ pc = "xcorr"
  /\ xCorr' = FiredBranches(RegisterValue(xs, NumRows), 0)
  /\ eX' = ApplyFlips(eX, xCorr')
  /\ pc' = "zcorr"
  /\ UNCHANGED <<sampler, pn, qi, gates, support, eZ, anc, pcl, pFired, xs,
                 zs, zCorr, out, shots, success, earlier>>

\* corrects Z-errors by examination of Z-syndromes
CorrectZ ==
  /\ pc = "zcorr"
  /\ zCorr' = FiredBranches(RegisterValue(zs, NumRows), 0)
  /\ eZ' = ApplyFlips(eZ, zCorr')
  /\ pc' = "measure"
  /\ UNCHANGED <<sampler, pn, qi, gates, support, eX, anc, pcl, pFired, xs,
                 zs, xCorr, out, shots, success, earlier>>

\* measure(data, output register): one string of the state, its X frame
\* applied
MeasureData ==
  \E c \in support :
    /\ out' = Xor(c, eX)
    /\ support' = {c}

\* measures the output
MeasureOutput ==
  /\ pc = "measure"
  /\ MeasureData
  /\ pc' = "score"
  /\ UNCHANGED <<sampler, pn, qi, gates, eX, eZ, anc, pcl, pFired, xs, zs,
                 xCorr, zCorr, shots, success, earlier>>

\* the get_counts() key of the shot: the classical registers, the last one
\* added first, separated by spaces
Key ==
  IF sampler = "ancilla"
  THEN RegisterString(pcl, 2) \o <<" ">> \o RegisterString(out, NumQubits)
         \o <<" ">> \o RegisterString(zs, NumRows)
         \o <<" ">> \o RegisterString(xs, NumRows)
  ELSE RegisterString(out, NumQubits)
         \o <<" ">> \o RegisterString(zs, NumRows)
         \o <<" ">> \o RegisterString(xs, NumRows)

\* variant: key[:15] taken from the key of either circuit
OutputSlice_NoOffset(k) == SubSeq(k, 1, 15)

\* key[3:18] (CSS_correction) and key[:15] (CSS_correction_numpy)
OutputSlice(k) ==
  IF sampler = "ancilla" THEN SubSeq(k, 4, 18) ELSE SubSeq(k, 1, 15)

\* if key[...] in logical_zero_components
Verdict == OutputSlice(Key) \in Range(logical_zero_components)

\* the tally of the test cells, taken one shot at a time: success grows by
\* one for a shot whose key passes the membership test (the sum over the
\* keys of counts of counts[key] is the number of such shots)
Score ==
  /\ pc = "score"
  /\ success' = IF Verdict THEN success + 1 ELSE success
  /\ shots' = shots + 1
  /\ pc' = "done"
  /\ UNCHANGED <<sampler, pn, qi, gates, support, eX, eZ, anc, pcl, pFired,
                 xs, zs, xCorr, zCorr, out, earlier>>

\* the next shot of the same compiled circuit
NextShot ==
  /\ pc = "done"
  /\ shots < MaxShots
  /\ FreshShot(NumQubits, NumRows)
  /\ pc' = "encode"
  /\ qi' = 0
  /\ UNCHANGED <<sampler, pn, gates, shots, success, earlier>>

\* the next round of the numpy test cell: the circuit is constructed again
Rebuild ==
  /\ pc = "done"
  /\ shots < MaxShots
  /\ sampler = "numpy"
  /\ FreshShot(NumQubits, NumRows)
  /\ gates' = NoGates(NumQubits)
  /\ pc' = "build"
  /\ qi' = 0
  /\ earlier' = {}
  /\ UNCHANGED <<sampler, pn, shots, success>>

Next ==
  \/ ComposeNumpyError
  \/ Encode
  \/ pauli_error
  \/ NumpyError
  \/ MeasureXSyndromes
  \/ MeasureZSyndromes
  \/ CorrectX
  \/ CorrectZ
  \/ MeasureOutput
  \/ Score
  \/ NextShot
  \/ Rebuild

\* a test cell: a circuit with either error channel, constructed, run for
\* up to MaxShots shots and tallied
Spec == Init /\ [][Next]_vars

\* ------------------------------------------------- stages and error pattern

XCorrected == pc \in {"zcorr", "measure", "score", "done"}

ZCorrected == pc \in {"measure", "score", "done"}

\* the errors of the shot: the frame without the corrections applied since
ErrX == IF XCorrected THEN ApplyFlips(eX, xCorr) ELSE eX

ErrZ == IF ZCorrected THEN ApplyFlips(eZ, zCorr) ELSE eZ

Weight(e) == Cardinality({i \in DOMAIN e : e[i] = 1})

Unit(i) == [Zero(NumQubits) EXCEPT ![i] = 1]

\* ------------------------------------------------- the decoder on any error

\* the pauli-cl bits and the fired block of a pauli_error block that applied
\* the frame bits x, z to its data qubit
BlockFor(x, z) ==
  LET b == CHOOSE c \in [0 .. 1 -> {0, 1}] :
             LET res == PauliErrorBranches(RegisterValue(c, 2), 0, 0, c)
             IN res.x = x /\ res.z = z
  IN [pcl |-> b, fired |-> PauliErrorBranches(RegisterValue(b, 2), 0, 0, b).fired]

\* CSS_correction after its 15 pauli_error blocks, with any error vector of
\* one type on the encoded state (every one has positive weight for
\* 0 < p < 1/3)
DecodeInit ==
  /\ sampler = "ancilla"
  /\ pn = 1
  /\ pc = "xsyn"
  /\ qi = 0
  /\ gates = NoGates(NumQubits)
  /\ support = Encoder({Zero(NumQubits)})
  /\ \E e \in [Qubits -> {0, 1}] :
       \/ eX = e /\ eZ = Zero(NumQubits)
       \/ eX = Zero(NumQubits) /\ eZ = e
  /\ anc = Zero(2)
  /\ pcl = BlockFor(eX[NumQubits - 1], eZ[NumQubits - 1]).pcl
  /\ pFired = BlockFor(eX[NumQubits - 1], eZ[NumQubits - 1]).fired
  /\ xs = Zero(NumRows)
  /\ zs = Zero(NumRows)
  /\ xCorr = << >>
  /\ zCorr = << >>
  /\ out = Zero(NumQubits)
  /\ shots = 0
  /\ success = 0
  /\ earlier = {}

DecodeNext ==
  \/ MeasureXSyndromes
  \/ MeasureZSyndromes
  \/ CorrectX
  \/ CorrectZ

\* syndrome extraction and the correction loops on every error vector
SpecDecode == DecodeInit /\ [][DecodeNext]_vars

\* ------------------------------------------- the scoring of any error pair

XPatterns == {e \in [Qubits -> {0, 1}] : Weight(e) <= MaxErrors + 1}

ZPatterns ==
  {[q \in Qubits |-> IF q \in S THEN 1 ELSE 0] :
     S \in SUBSET (0 .. (MaxZQubits - 1))}

\* the gates pauli_error_numpy composes for the frame bits x, z of a qubit
\* (it has no draw with both)
GatesFor(x, z) ==
  IF x = 1 THEN <<"y", "z">> ELSE IF z = 1 THEN <<"z">> ELSE << >>

\* either circuit after its 15 error blocks, with an X and a Z error
\* pattern on the encoded state
VerdictInit ==
  /\ sampler \in {"ancilla", "numpy"}
  /\ pn = 1
  /\ pc = "xsyn"
  /\ qi = 0
  /\ support = Encoder({Zero(NumQubits)})
  /\ eX \in XPatterns
  /\ eZ \in ZPatterns
  /\ IF sampler = "numpy"
     THEN {q \in Qubits : eX[q] = 1 /\ eZ[q] = 1} = {}
     ELSE TRUE
  /\ gates = IF sampler = "numpy"
             THEN [q \in Qubits |-> GatesFor(eX[q], eZ[q])]
             ELSE NoGates(NumQubits)
  /\ anc = Zero(2)
  /\ pcl = IF sampler = "ancilla"
           THEN BlockFor(eX[NumQubits - 1], eZ[NumQubits - 1]).pcl
           ELSE Zero(2)
  /\ pFired = IF sampler = "ancilla"
              THEN BlockFor(eX[NumQubits - 1], eZ[NumQubits - 1]).fired
              ELSE << >>
  /\ xs = Zero(NumRows)
  /\ zs = Zero(NumRows)
  /\ xCorr = << >>
  /\ zCorr = << >>
  /\ out = Zero(NumQubits)
  /\ shots = 0
  /\ success = 0
  /\ earlier = {}

VerdictNext ==
  \/ MeasureXSyndromes
  \/ MeasureZSyndromes
  \/ CorrectX
  \/ CorrectZ
  \/ MeasureOutput
  \/ Score

\* syndromes, corrections, output measurement and tally of one shot
SpecVerdict == VerdictInit /\ [][VerdictNext]_vars

\* ------------------------------------------- one error channel on one qubit

\* the test cell of the error channel: one data qubit prepared in 0, the
\* channel composed on it, the qubit measured; for either channel
ChannelInit ==
  /\ sampler \in {"ancilla", "numpy"}
  /\ pn \in GridPn
  /\ pc = IF sampler = "numpy" THEN "cbuild" ELSE "cerror"
  /\ Fresh(1, 0)

\* the circuit of pauli_error_numpy(p) is constructed: the draw
ChannelCompose ==
  /\ pc = "cbuild"
  /\ ComposeNumpy(0)
  /\ pc' = "cerror"
  /\ UNCHANGED <<sampler, pn, qi, support, eX, eZ, anc, pcl, pFired, xs, zs,
                 xCorr, zCorr, out, shots, success, earlier>>

\* the channel runs on the data qubit
ChannelError ==
  /\ pc = "cerror"
  /\ IF sampler = "ancilla"
     THEN PauliErrorBlock(0)
     ELSE NumpyBlock(0) /\ UNCHANGED <<anc, pcl, pFired>>
  /\ pc' = "cmeasure"
  /\ UNCHANGED <<sampler, pn, qi, gates, support, xs, zs, xCorr, zCorr, out,
                 shots, success, earlier>>

\* qc.measure(qr, output)
ChannelMeasure ==
  /\ pc = "cmeasure"
  /\ MeasureData
  /\ pc' = "ctally"
  /\ UNCHANGED <<sampler, pn, qi, gates, eX, eZ, anc, pcl, pFired, xs, zs,
                 xCorr, zCorr, shots, success, earlier>>

\* the shot is added to counts
ChannelTally ==
  /\ pc = "ctally"
  /\ shots' = shots + 1
  /\ pc' = "cdone"
  /\ UNCHANGED <<sampler, pn, qi, gates, support, eX, eZ, anc, pcl, pFired,
                 xs, zs, xCorr, zCorr, out, success, earlier>>

\* the next shot of the compiled circuit
ChannelNextShot ==
  /\ pc = "cdone"
  /\ shots < MaxShots
  /\ FreshShot(1, 0)
  /\ pc' = "cerror"
  /\ UNCHANGED <<sampler, pn, qi, gates, shots, success, earlier>>

ChannelNext ==
  \/ ChannelCompose
  \/ ChannelError
  \/ ChannelMeasure
  \/ ChannelTally
  \/ ChannelNextShot

SpecChannel == ChannelInit /\ [][ChannelNext]_vars

\* ------------------------------------ replays of one CSS_correction_numpy

\* what a shot showed: its errors, syndromes, corrections and verdict
Outcome ==
  [errX |-> ErrX, errZ |-> ErrZ, xs |-> xs, zs |-> zs,
   xCorr |-> xCorr, zCorr |-> zCorr, verdict |-> Verdict]

ReplayInit ==
  /\ sampler = "numpy"
  /\ pn \in TrialPn
  /\ pc = "build"
  /\ Fresh(NumQubits, NumRows)

\* the next shot of the same compiled circuit, the outcome of the shot
\* before it kept for comparison
Replay ==
  /\ pc = "done"
  /\ shots < MaxShots
  /\ FreshShot(NumQubits, NumRows)
  /\ pc' = "encode"
  /\ qi' = 0
  /\ earlier' = earlier \cup {Outcome}
  /\ UNCHANGED <<sampler, pn, gates, shots, success>>

ReplayNext ==
  \/ ComposeNumpyError
  \/ Encode
  \/ NumpyError
  \/ MeasureXSyndromes
  \/ MeasureZSyndromes
  \/ CorrectX
  \/ CorrectZ
  \/ MeasureOutput
  \/ Score
  \/ Replay
  \/ Rebuild

\* CSS_correction_numpy(p) constructed, run for several shots, constructed
\* again
SpecReplay == ReplayInit /\ [][ReplayNext]_vars

\* ------------------------------------------- the list of codeword strings

\* the bit string of entry k of logical_zero_components
Entry(k) == KeyBits(logical_zero_components[k], NumQubits)

CodewordInit ==
  /\ sampler = "ancilla"
  /\ pn = 0
  /\ pc = "entries"
  /\ Fresh(NumQubits, NumRows)

\* two entries of the list, the first kept, the second in the output bits
PickEntries ==
  /\ pc = "entries"
  /\ \E j \in DOMAIN logical_zero_components :
     \E k \in DOMAIN logical_zero_components :
       /\ support' = {Entry(j)}
       /\ out' = Entry(k)
  /\ pc' = "picked"
  /\ UNCHANGED <<sampler, pn, qi, gates, eX, eZ, anc, pcl, pFired, xs, zs,
                 xCorr, zCorr, shots, success, earlier>>

\* the bitwise XOR of the two entries
XorEntries ==
  /\ pc = "picked"
  /\ \E a \in support : out' = Xor(a, out)
  /\ pc' = "summed"
  /\ UNCHANGED <<sampler, pn, qi, gates, support, eX, eZ, anc, pcl, pFired,
                 xs, zs, xCorr, zCorr, shots, success, earlier>>

\* the row parities of H_matrix over the output bits, as the X- and as the
\* Z-syndrome computation takes them
EntrySyndromes ==
  /\ pc \in {"picked", "summed"}
  /\ xs' = SyndromeBits(out)
  /\ zs' = SyndromeBits(out)
  /\ pc' = IF pc = "picked" THEN "entry syndromes" ELSE "sum syndromes"
  /\ UNCHANGED <<sampler, pn, qi, gates, support, eX, eZ, anc, pcl, pFired,
                 xCorr, zCorr, out, shots, success, earlier>>

CodewordNext == PickEntries \/ XorEntries \/ EntrySyndromes

SpecCodewords == CodewordInit /\ [][CodewordNext]_vars

\* ---------------------------------------------------------------- claims

\* the qubits in error in this shot, before the corrections
ErrSet == {q \in DOMAIN eX : ErrX[q] = 1 \/ ErrZ[q] = 1}

\* the codewords of the list as bit strings over the qubits
Codewords == {KeyBits(s, NumQubits) : s \in Range(logical_zero_components)}

\* C1: an error vector with exactly one bit set, at qubit i (as e_X or as
\* e_Z), has syndrome i+1 under H_matrix, and the correction loop fires the
\* branch of qubit i and no other.
C1_SingleErrorDecoded ==
  /\ (XCorrected /\ Weight(ErrX) = 1)
       => LET i == CHOOSE q \in Qubits : ErrX[q] = 1
          IN RegisterValue(xs, NumRows) = i + 1 /\ xCorr = <<i>>
  /\ (ZCorrected /\ Weight(ErrZ) = 1)
       => LET i == CHOOSE q \in Qubits : ErrZ[q] = 1
          IN RegisterValue(zs, NumRows) = i + 1 /\ zCorr = <<i>>

\* C1 witness: a single Z error on the last qubit has been decoded to it
C1_Witness ==
  /\ pc = "measure"
  /\ ErrZ = Unit(NumQubits - 1)
  /\ RegisterValue(zs, NumRows) = NumQubits
  /\ zCorr = <<NumQubits - 1>>

\* C2: a single-qubit Pauli error X, Y or Z on qubit i alone leaves no net
\* error after syndrome extraction and the two correction loops: the X part
\* gives X-syndrome i+1 and one X correction on i, the Z part gives
\* Z-syndrome i+1 and one Z correction on i (a Y error both), and the trial
\* is scored a success.
C2_SinglePauliCorrected ==
  (ZCorrected /\ Cardinality(ErrSet) = 1)
    => LET i == CHOOSE q \in ErrSet : TRUE
       IN /\ eX = Zero(NumQubits)
          /\ eZ = Zero(NumQubits)
          /\ IF ErrX[i] = 1
             THEN RegisterValue(xs, NumRows) = i + 1 /\ xCorr = <<i>>
             ELSE RegisterValue(xs, NumRows) = 0 /\ xCorr = << >>
          /\ IF ErrZ[i] = 1
             THEN RegisterValue(zs, NumRows) = i + 1 /\ zCorr = <<i>>
             ELSE RegisterValue(zs, NumRows) = 0 /\ zCorr = << >>
          /\ pc \in {"score", "done"} => Verdict
          /\ (pc = "done" /\ shots = 1) => success = 1

\* C2 witness: a Y error on one qubit, corrected by X and Z on that qubit,
\* and the shot tallied as a success
C2_Witness ==
  /\ pc = "done"
  /\ shots = 1
  /\ success = 1
  /\ \E i \in Qubits :
       /\ ErrX = Unit(i)
       /\ ErrZ = Unit(i)
       /\ xCorr = <<i>>
       /\ zCorr = <<i>>

\* C3: the encoder's operation sequence applied to the all-zero basis state
\* yields a state whose basis strings, read in the bit order of the
\* measurement key, are exactly the 16 strings of logical_zero_components.
C3_EncoderYieldsCodewords ==
  (pc = "error" /\ qi = 0)
    => {RegisterString(c, NumQubits) : c \in support}
         = Range(logical_zero_components)

\* C3 witness: the encoder has run and the state has 16 basis strings
C3_Witness ==
  /\ pc = "error"
  /\ qi = 0
  /\ Cardinality(support) = 16
  /\ shots = 0

\* C4: logical_zero_components has 16 pairwise distinct entries of 15 bits
\* and holds the all-zero string; the bitwise XOR of any two entries is an
\* entry; every entry (read as a key, character s is qubit 14-s) has all
\* four row parities of H_matrix 0, for the X and for the Z computation.
C4_CodewordSet ==
  /\ Len(logical_zero_components) = 2^NumRows
  /\ Cardinality(Range(logical_zero_components)) = 2^NumRows
  /\ \A s \in Range(logical_zero_components) : Len(s) = NumQubits
  /\ Zero(NumQubits) \in Codewords
  /\ pc = "picked" => (support \subseteq Codewords /\ out \in Codewords)
  /\ pc = "summed" => out \in Codewords
  /\ pc \in {"entry syndromes", "sum syndromes"}
       => (xs = Zero(NumRows) /\ zs = Zero(NumRows))

\* C4 witness: the XOR of two distinct nonzero entries, a third nonzero
\* entry, has been found to have syndrome 0
C4_Witness ==
  /\ pc = "sum syndromes"
  /\ out # Zero(NumQubits)
  /\ out \notin support
  /\ Zero(NumQubits) \notin support
  /\ out \in Codewords
  /\ xs = Zero(NumRows)

\* C5: H_std has the identity in its columns 0..3 and is H_matrix with rows
\* 3 and 4 swapped and then columns 3 and 8 swapped (counted from 1, the
\* qubit indices 2 and 7); undoing the column swap on H_std gives a matrix
\* whose rows are a permutation of the rows of H_matrix, so that the state
\* encoded from H_std with the swap of qubits 2 and 7 holds every row of
\* H_matrix.
C5_StandardForm ==
  /\ \A i \in Rows : \A j \in Rows :
       H_std[i + 1][j + 1] = IF i = j THEN 1 ELSE 0
  /\ H_std = SwapColumns(SwapRows(H_matrix, 3, 4), 3, 8)
  /\ Range(SwapColumns(H_std, 3, 8)) = Range(H_matrix)
  /\ Cardinality(Range(H_matrix)) = NumRows
  /\ (pc = "error" /\ qi = 0)
       => \A r \in Rows : RowStrings[r] \in support

\* C5 witness: the encoder has used H_std and undone the column swap: the
\* state's strings are sums of rows of H_matrix, one of them a row itself
C5_Witness ==
  /\ pc = "error"
  /\ qi = 0
  /\ shots = 0
  /\ \E r \in Rows : RowStrings[r] \in support

\* C6 (as claimed): pauli_error_numpy maps a draw in [0,p) to a net X, in
\* [p,2p) to a net Y, in [2p,3p) to a net Z and in [3p,1) to the identity.
C6_NumpyPartition ==
  (sampler = "numpy" /\ pc \in {"cmeasure", "ctally", "cdone"})
    => \A r \in 0 .. (PDen - 1) :
         gates[0] = pauli_error_numpy(pn, r)
           => <<eX[0], eZ[0]>> =
                IF r < pn THEN <<1, 0>>
                ELSE IF r < 2 * pn THEN <<1, 1>>
                ELSE IF r < 3 * pn THEN <<0, 1>>
                ELSE <<0, 0>>

\* C7: with p = 0 and either error channel no error is applied, both
\* syndromes are 0, no correction fires, every measured output is in
\* logical_zero_components, and the success count equals the number of
\* shots (success rate 1.0).
C7_NoNoiseAlwaysSucceeds ==
  pn = 0
    => /\ gates = NoGates(NumQubits)
       /\ eX = Zero(NumQubits)
       /\ eZ = Zero(NumQubits)
       /\ xs = Zero(NumRows)
       /\ zs = Zero(NumRows)
       /\ xCorr = << >>
       /\ zCorr = << >>
       /\ pc \in {"score", "done"} => Verdict
       /\ pc = "score" => success = shots
       /\ pc = "done" => (shots >= 1 /\ success = shots)

\* C7 witness: MaxShots shots at p = 0 with the ancilla channel, all tallied
\* as successes, the last on a nonzero codeword
C7_Witness ==
  /\ pn = 0
  /\ sampler = "ancilla"
  /\ pc = "done"
  /\ shots = MaxShots
  /\ success = MaxShots
  /\ out # Zero(NumQubits)

\* C8: with the construction-time channel every shot of one constructed
\* circuit shows the same error pattern, the same X- and Z-syndromes, the
\* same corrections and the same verdict as the shots before it; another
\* pattern appears only after the circuit is constructed again.
C8_ReplaysIdentical ==
  pc = "done" => \A o \in earlier : o = Outcome

\* C8 witness: a second shot of a circuit with an error gate ended like the
\* first
C8_Witness ==
  /\ pc = "done"
  /\ shots = 2
  /\ earlier = {Outcome}
  /\ ErrSet # {}

\* C9: in pauli_error exactly one if_test block fires for the measured
\* value v of the classical register; the data qubit gets X for v = 0, Y for
\* v = 1, Z for v = 2, no gate for v = 3; a data qubit prepared in 0 is
\* measured 1 exactly when v is 0 or 1.
C9_AncillaBranches ==
  (sampler = "ancilla" /\ pc \in {"cmeasure", "ctally", "cdone"})
    => LET v == RegisterValue(pcl, 2)
       IN /\ pFired = <<v>>
          /\ <<eX[0], eZ[0]>> =
               IF v = 0 THEN <<1, 0>>
               ELSE IF v = 1 THEN <<1, 1>>
               ELSE IF v = 2 THEN <<0, 1>>
               ELSE <<0, 0>>
          /\ pc \in {"ctally", "cdone"} => (out[0] = 1 <=> v \in {0, 1})

\* C9 witness: the register read 1, the Y block fired, the qubit was
\* measured 1
C9_Witness ==
  /\ sampler = "ancilla"
  /\ pc = "cdone"
  /\ RegisterValue(pcl, 2) = 1
  /\ pFired = <<1>>
  /\ out[0] = 1

\* C10: for an error vector of any weight and for each syndrome type the
\* correction loop ends without an error outcome and applies at most one
\* correction: none when the syndrome is 0, exactly one, on qubit v-1, when
\* the syndrome is v in 1..15.
C10_AtMostOneCorrection ==
  /\ pc = "xcorr" => ENABLED CorrectX
  /\ pc = "zcorr" => ENABLED CorrectZ
  /\ XCorrected
       => LET v == RegisterValue(xs, NumRows)
          IN /\ v \in 0 .. NumQubits
             /\ xCorr = IF v = 0 THEN << >> ELSE <<v - 1>>
             /\ eX = IF v = 0 THEN ErrX ELSE Flip(ErrX, v - 1)
  /\ ZCorrected
       => LET v == RegisterValue(zs, NumRows)
          IN /\ v \in 0 .. NumQubits
             /\ zCorr = IF v = 0 THEN << >> ELSE <<v - 1>>
             /\ eZ = IF v = 0 THEN ErrZ ELSE Flip(ErrZ, v - 1)

\* C10 witness: an X error vector of weight 3 got exactly one correction,
\* on a qubit that was not in error
C10_Witness ==
  /\ pc = "measure"
  /\ Weight(ErrX) = 3
  /\ Len(xCorr) = 1
  /\ ErrX[xCorr[1]] = 0

\* the X error pattern e after the X correction the decoder applies to it
DecodedX(e) ==
  ApplyFlips(e, FiredBranches(RegisterValue(SyndromeBits(e), NumRows), 0))

\* C11: the verdict of a shot is a function of the X error pattern alone:
\* whatever the Z errors and the Z correction, the outputs the measurement
\* can give are the 16 codewords shifted by e_X XOR the X correction, and
\* the key passes the membership test (and is tallied) exactly when e_X XOR
\* the X correction is one of the 16 codewords.
C11_VerdictFromXOnly ==
  /\ pc = "measure"
       => /\ eX = DecodedX(ErrX)
          /\ {Xor(c, eX) : c \in support}
               = {Xor(c, DecodedX(ErrX)) : c \in Codewords}
  /\ pc \in {"score", "done"}
       => /\ out \in {Xor(c, DecodedX(ErrX)) : c \in Codewords}
          /\ Verdict <=> DecodedX(ErrX) \in Codewords
  /\ pc = "done"
       => success = IF DecodedX(ErrX) \in Codewords THEN shots ELSE shots - 1

\* C11 witness: a shot with a corrected X error and Z errors on two qubits,
\* miscorrected to a Z error on three, tallied as a success
C11_Witness ==
  /\ pc = "done"
  /\ success = 1
  /\ Weight(ErrX) = 1
  /\ Weight(ErrZ) = 2
  /\ Weight(eZ) = 3

\* C12: for an error vector of any weight the measured syndrome is the
\* syndrome of the error under H_matrix, and the vector after the
\* correction loop (the bit of qubit syndrome - 1 flipped when the syndrome
\* is not 0) has syndrome 0 under H_matrix, for the X and for the Z
\* component.
C12_CorrectedHasZeroSyndrome ==
  /\ XCorrected
       => /\ xs = SyndromeBits(ErrX)
          /\ Weight(Xor(eX, ErrX)) = IF xs = Zero(NumRows) THEN 0 ELSE 1
          /\ SyndromeBits(eX) = Zero(NumRows)
  /\ ZCorrected
       => /\ zs = SyndromeBits(ErrZ)
          /\ Weight(Xor(eZ, ErrZ)) = IF zs = Zero(NumRows) THEN 0 ELSE 1
          /\ SyndromeBits(eZ) = Zero(NumRows)

\* C12 witness: a Z error vector of weight 4 with syndrome 15, corrected on
\* the last qubit to a vector of weight 5 with syndrome 0
C12_Witness ==
  /\ pc = "measure"
  /\ Weight(ErrZ) = 4
  /\ RegisterValue(zs, NumRows) = NumQubits
  /\ Weight(eZ) = 5
  /\ SyndromeBits(eZ) = Zero(NumRows)

\* the ancillas a block flips back for the measured value v: none for 0,
\* ancilla 0 for 1, ancilla 1 for 2, both for 3
ResetMask(v) == [k \in 0 .. 1 |-> (v \div 2^k) % 2]

\* C13: after every pauli_error block of CSS_correction, whatever value v
\* the register pauli-cl took, exactly block v fired and the two shared
\* ancillas, measured as the bits of v and flipped back by the block, are
\* 00 again; so every block starts from ancillas 00 and the weights of its
\* outcomes are those of a first block, whatever was sampled before.
C13_AncillasReset ==
  sampler = "ancilla"
    => /\ anc = Zero(2)
       /\ pFired # << >>
            => /\ pFired = <<RegisterValue(pcl, 2)>>
               /\ Xor(pcl, ResetMask(RegisterValue(pcl, 2))) = anc
       /\ pc = "error"
            => \A b \in [0 .. 1 -> {0, 1}] :
                 OutcomeWeight(pn, anc, b) = OutcomeWeight(pn, Zero(2), b)

\* C13 witness: the block of an earlier qubit sampled an error, the block
\* before this one measured 3, and the next block starts from ancillas 00
C13_Witness ==
  /\ sampler = "ancilla"
  /\ pc = "error"
  /\ qi >= 2
  /\ Erred # {}
  /\ RegisterValue(pcl, 2) = 3
  /\ pFired = <<3>>
  /\ anc = Zero(2)
====
